---------------------------- MODULE Spec2Model ----------------------------
(***************************************************************************)
(* srcFacts: a single-pass scanner over a srcML document read from         *)
(* standard input through a refillable byte window (src/srcFacts.cpp).     *)
(*                                                                         *)
(* One step of the model is one iteration of the main loop of main():      *)
(* either the refill of the window or one construct handler, run to its    *)
(* end.  The operating system's read is the only source of                 *)
(* nondeterminism: it may return any number of the bytes that remain, or   *)
(* fail.  A call of a standard algorithm on a range whose first iterator   *)
(* lies behind its last one is undefined; the model offers the two results *)
(* the known library implementations give (see FindU).                     *)
(***************************************************************************)
EXTENDS Integers, Sequences, FiniteSets, TLC

(***************************************************************************)
(* Bounds of the model.                                                    *)
(***************************************************************************)
\* the number of fragments a generated document is made of
MaxToks == 3

\* the number of attributes a generated XML declaration has at most
MaxDeclAttrs == 4

(***************************************************************************)
(* Program constants.                                                      *)
(***************************************************************************)
BUFFER_SIZE == 1048576

\* the window sizes below which the end-tag and the start-tag handler look
\* for the closing '>' before they parse (lines 432 and 476)
EndTagLookahead == 100
StartTagLookahead == 200

\* isspace() in the "C" locale (the vertical tab has no TLA+ escape)
SpaceChars == {" ", "\t", "\n", "\r", "\f"}

\* the bytes whose bit is set in tagNameMask
NameChars ==
    {"-", ".", "_", "0", "1", "2", "3", "4", "5", "6", "7", "8", "9",
     "A", "B", "C", "D", "E", "F", "G", "H", "I", "J", "K", "L", "M",
     "N", "O", "P", "Q", "R", "S", "T", "U", "V", "W", "X", "Y", "Z",
     "a", "b", "c", "d", "e", "f", "g", "h", "i", "j", "k", "l", "m",
     "n", "o", "p", "q", "r", "s", "t", "u", "v", "w", "x", "y", "z"}

isspace(c) == c \in SpaceChars

tagNameMask(c) == c \in NameChars

\* the byte that ends the storage of a std::string
NUL == "NUL"

\* the result of a scan that ran off the end of the buffer's storage
OFF == BUFFER_SIZE + 1

SetMin(S) == CHOOSE x \in S : \A y \in S : x <= y

Min(a, b) == IF a <= b THEN a ELSE b

(***************************************************************************)
(* The documents the model reads: every sequence of at most MaxToks        *)
(* fragments, and a few longer documents.                                  *)
(***************************************************************************)
Fragments ==
    << <<"<", "a", ">">>,
       <<"<", "/", "a", ">">>,
       <<"x", "\n", "y">>,
       <<" ">>,
       <<"<", "!", "-", "-", "c">>,
       <<"-", "-", ">">>,
       <<"<", "b">>,
       <<" ", "u", "r", "l", "=", "'", ">", "'">>,
       <<">">>
    >>

\* fragment i, where 0 stands for no fragment
Frag(i) == IF i = 0 THEN <<>> ELSE Fragments[i]

\* the concatenation of the first n fragments d names
RECURSIVE Cat(_, _)
Cat(d, n) == IF n = 0 THEN <<>> ELSE Cat(d, n - 1) \o Frag(d[n])

XmlDecl ==
    <<"<", "?", "x", "m", "l", " ", "v", "e", "r", "s", "i", "o", "n",
      "=", "\"", "1", ".", "0", "\"", "?", ">">>

UnitOpen == <<"<", "u", "n", "i", "t", ">">>
UnitClose == <<"<", "/", "u", "n", "i", "t", ">">>
ExprEmpty == <<"<", "e", "x", "p", "r", "/", ">">>
CDataOpen == <<"<", "!", "[", "C", "D", "A", "T", "A", "[">>
CDataClose == <<"]", "]", ">">>

\* the declaration, a newline, <unit><expr/></unit> and a newline
DeclaredUnitDoc ==
    XmlDecl \o <<"\n">> \o UnitOpen \o ExprEmpty \o UnitClose \o <<"\n">>

\* a unit with a prefixed, self-closing expr
PrefixedExprDoc ==
    <<"<", "u", "n", "i", "t", ">", "<", "s", ":", "e", "x", "p", "r", "/",
      ">", "<", "/", "u", "n", "i", "t", ">", "\n">>

\* a function with a self-closing class
FunctionClassDoc ==
    <<"<", "f", "u", "n", "c", "t", "i", "o", "n", ">", "<", "c", "l", "a",
      "s", "s", "/", ">", "<", "/", "f", "u", "n", "c", "t", "i", "o", "n",
      ">", "\n">>

\* a decl with an attribute and a self-closing comment
DeclCommentDoc ==
    <<"<", "d", "e", "c", "l", " ", "u", "=", "'", "1", "'", ">", "<", "c",
      "o", "m", "m", "e", "n", "t", "/", ">", "<", "/", "d", "e", "c", "l",
      ">", "\n">>

\* a unit inside a root element that is not a unit
ForeignRootDoc ==
    <<"<", "a", ">", "<", "u", "n", "i", "t", ">", "<", "/", "u", "n", "i",
      "t", ">", "<", "/", "a", ">", "\n">>

\* a unit with a unit child
ArchiveDoc ==
    <<"<", "u", "n", "i", "t", ">", "<", "u", "n", "i", "t", "/", ">", "<",
      "/", "u", "n", "i", "t", ">", "\n">>

\* an element in an element
NestedDoc ==
    <<"<", "a", ">", "<", "b", ">", "<", "/", "b", ">", "<", "/", "a", ">",
      "\n">>

\* NestedDoc with white space before the '>' of an end tag
PaddedEndTagDoc ==
    <<"<", "a", ">", "<", "b", ">", "<", "/", "b", " ", "\n", ">", "<", "/",
      "a", ">", "\n">>

\* NestedDoc with white space before the '>' of a start tag
PaddedStartTagDoc ==
    <<"<", "a", ">", "<", "b", " ", "\n", ">", "<", "/", "b", ">", "<", "/",
      "a", ">", "\n">>

\* two attributes named url
TwoUrlsDoc ==
    <<"<", "a", " ", "u", "r", "l", "=", "'", "1", "'", ">", "<", "b", " ",
      "u", "r", "l", "=", "'", "2", "'", "/", ">", "<", "/", "a", ">",
      "\n">>

\* a CDATA section inside a comment element
CommentCDataDoc ==
    <<"<", "c", "o", "m", "m", "e", "n", "t", ">", "<", "!", "[", "C", "D",
      "A", "T", "A", "[", "a", "<", "b", "&", "c", "]", "]", ">", "<", "/",
      "c", "o", "m", "m", "e", "n", "t", ">", "\n">>

\* an attribute with a prefix
PrefixedAttributeDoc ==
    <<"<", "a", " ", "p", ":", "x", "=", "'", "v", "'", ">", "<", "/", "a",
      ">", "\n">>

\* an element whose header is closed behind a namespace declaration
NamespaceOpenDoc ==
    <<"<", "b", " ", "x", "m", "l", "n", "s", "=", "'", "v", "'", ">", "<",
      "/", "b", ">", "\n">>

ExtraDocs ==
    { NamespaceOpenDoc, DeclaredUnitDoc, PrefixedExprDoc, FunctionClassDoc, DeclCommentDoc,
      ForeignRootDoc, ArchiveDoc, NestedDoc,
      PaddedStartTagDoc, PaddedEndTagDoc, TwoUrlsDoc, CommentCDataDoc, PrefixedAttributeDoc,
      UnitOpen \o <<"<", "?", "p", " ", "q", "?", ">">>
               \o <<"&", "l", "t", ";", "&", "a", "m", "p", ";", "&", "x">>
               \o UnitClose,
      <<"<", "u", "n", "i", "t">>,
      UnitOpen \o CDataOpen \o <<"d", "\n">> \o CDataClose \o UnitClose,
      UnitOpen \o CDataOpen \o <<"d", "\n">>,
      <<"<", "b", " ", "x", "m", "l", "n", "s", ":", "p", "=", "'", "u", "'",
        " ", "x", "m", "l", "n", "s", "=", "'", "v", "'", "/", ">">>,
      <<"<", "a", " ", "b", "=", "'", "1", "'", ">",
        "<", "a", " ", "b", "=", "'", ">", "'", "/", ">", "<", "/", "a", ">">> }

VARIABLES
    input,          \* the bytes standard input delivers, in order
    offset,         \* how many of them the reads have delivered so far
    buffer,         \* the bytes of `buffer` written so far (the rest is ' ')
    cursor,         \* offset of `cursor` in the buffer
    cursorEnd,      \* offset of `cursorEnd` in the buffer
    totalBytes,
    inTag, inXMLComment, inCDATA,
    depth,
    textsize, loc,
    exprCount, functionCount, classCount, unitCount, declCount, commentCount,
    isArchive,
    url,
    pc,             \* "run", or how main() ended: "exit0", "exit1", "undefined"
    diag,           \* the diagnostic written to standard error, "" if none
    stdout,         \* the rows of the report written to standard output
    oob,            \* some byte at or beyond cursorEnd has been read
    branch,         \* the branch the last iteration took
    readSite        \* where the last iteration called refillBuffer: "main",
                    \* "handler", or "none" if it did not

vars == <<input, offset, buffer, cursor, cursorEnd, totalBytes, inTag,
          inXMLComment, inCDATA, depth, textsize, loc, exprCount,
          functionCount, classCount, unitCount, declCount, commentCount,
          isArchive, url, pc, diag, stdout, oob, branch, readSite>>

\* the state of main() as one record, on which the handlers are written
St ==
    [input |-> input, offset |-> offset, buffer |-> buffer, cursor |-> cursor,
     cursorEnd |-> cursorEnd, totalBytes |-> totalBytes, inTag |-> inTag,
     inXMLComment |-> inXMLComment, inCDATA |-> inCDATA, depth |-> depth,
     textsize |-> textsize, loc |-> loc, exprCount |-> exprCount,
     functionCount |-> functionCount, classCount |-> classCount,
     unitCount |-> unitCount, declCount |-> declCount,
     commentCount |-> commentCount, isArchive |-> isArchive, url |-> url,
     pc |-> pc, diag |-> diag, stdout |-> stdout, oob |-> oob,
     branch |-> branch, readSite |-> readSite]

\* main(), lines 118-139: the state before the first iteration, with d the
\* bytes standard input will deliver
InitOn(d) ==
    [input |-> d, offset |-> 0, buffer |-> <<>>, cursor |-> BUFFER_SIZE,
     cursorEnd |-> BUFFER_SIZE, totalBytes |-> 0, inTag |-> FALSE,
     inXMLComment |-> FALSE, inCDATA |-> FALSE, depth |-> 0,
     textsize |-> 0, loc |-> 0, exprCount |-> 0, functionCount |-> 0,
     classCount |-> 0, unitCount |-> 0, declCount |-> 0, commentCount |-> 0,
     isArchive |-> FALSE, url |-> <<>>, pc |-> "run", diag |-> "",
     stdout |-> <<>>, oob |-> FALSE, branch |-> "start", readSite |-> "none"]

InitSt == InitOn(input)

Becomes(s) ==
    /\ offset' = s.offset
    /\ buffer' = s.buffer
    /\ cursor' = s.cursor
    /\ cursorEnd' = s.cursorEnd
    /\ totalBytes' = s.totalBytes
    /\ inTag' = s.inTag
    /\ inXMLComment' = s.inXMLComment
    /\ inCDATA' = s.inCDATA
    /\ depth' = s.depth
    /\ textsize' = s.textsize
    /\ loc' = s.loc
    /\ exprCount' = s.exprCount
    /\ functionCount' = s.functionCount
    /\ classCount' = s.classCount
    /\ unitCount' = s.unitCount
    /\ declCount' = s.declCount
    /\ commentCount' = s.commentCount
    /\ isArchive' = s.isArchive
    /\ url' = s.url
    /\ pc' = s.pc
    /\ diag' = s.diag
    /\ stdout' = s.stdout
    /\ oob' = s.oob
    /\ branch' = s.branch
    /\ readSite' = s.readSite
    /\ UNCHANGED input

(***************************************************************************)
(* The buffer and the standard algorithms on it.                           *)
(***************************************************************************)
\* buffer[i]: what has been written there, the ' ' the buffer was
\* constructed with, or the terminator of the string's storage
Byte(s, i) ==
    IF i >= 0 /\ i < Len(s.buffer) THEN s.buffer[i + 1]
    ELSE IF i < BUFFER_SIZE THEN " "
    ELSE NUL

\* the window [cursor, cursorEnd)
Window(s) == [i \in 1..(s.cursorEnd - s.cursor) |-> Byte(s, s.cursor + i - 1)]

\* std::find / std::find_if / std::find_if_not on [first, last)
Find(s, first, last, P(_)) ==
    LET hits == {i \in first..(last - 1) : P(Byte(s, i))}
    IN  IF hits = {} THEN last ELSE SetMin(hits)

\* a linear scan from first that is not stopped by any last
ScanFrom(s, first, P(_)) ==
    LET hits == {i \in first..(Len(s.buffer) - 1) : P(Byte(s, i))}
    IN  IF hits # {} THEN SetMin(hits)
        ELSE IF first < BUFFER_SIZE /\ P(" ")
             THEN IF first > Len(s.buffer) THEN first ELSE Len(s.buffer)
        ELSE IF first <= BUFFER_SIZE /\ P(NUL) THEN BUFFER_SIZE
        ELSE OFF

\* std::find* on a range that may be invalid (first > last), which is
\* undefined: an implementation that takes the distance first returns last
\* (ub = "last"), one that loops until first == last scans on (ub = "scan")
FindU(s, first, last, P(_), ub) ==
    IF first <= last \/ ub = "last" THEN Find(s, first, last, P)
    ELSE ScanFrom(s, first, P)

Matches(s, at, pat) == \A j \in 1..Len(pat) : Byte(s, at + j - 1) = pat[j]

\* std::search on [first, last)
Search(s, first, last, pat) ==
    LET hits == {i \in first..(last - Len(pat)) : Matches(s, i, pat)}
    IN  IF hits = {} THEN last ELSE SetMin(hits)

\* strncmp(&buffer[at], lit, Len(lit)): <<equal, number of bytes compared>>
Strncmp(s, at, lit) ==
    LET diff == {j \in 1..Len(lit) : Byte(s, at + j - 1) # lit[j]}
    IN  IF diff = {} THEN <<TRUE, Len(lit)>> ELSE <<FALSE, SetMin(diff)>>

\* the bytes of [from, to)
Slice(s, from, to) == [i \in 1..(to - from) |-> Byte(s, from + i - 1)]

\* std::count of '\n' in a byte sequence
RECURSIVE CountNL(_)
CountNL(q) ==
    IF q = <<>> THEN 0
    ELSE (IF Head(q) = "\n" THEN 1 ELSE 0) + CountNL(Tail(q))

\* a read of the byte at i: it is out of the window when i >= cursorEnd
Reads(s, idx) == [s EXCEPT !.oob = @ \/ (\E i \in idx : i >= s.cursorEnd)]

Err(s, msg) == [s EXCEPT !.pc = "exit1", !.diag = msg]

\* the behaviour is undefined from here on (a scan off the buffer's storage,
\* a copy of an invalid range, a write outside the buffer): the run is
\* followed no further
Undefined(s) == [s EXCEPT !.pc = "undefined"]

(***************************************************************************)
(* refillBuffer, lines 68-99.                                              *)
(***************************************************************************)
\* what READ may return: -1 (an error other than EINTR, which is retried),
\* 0 at the end of the input or for a full buffer, or the number of bytes
\* delivered, which is any number from 1 to what remains and fits
ReadResults(s) ==
    LET room == BUFFER_SIZE - (s.cursorEnd - s.cursor)
        n    == Min(Len(s.input) - s.offset, room)
    IN  {-1} \cup (IF n <= 0 THEN {0} ELSE 1..n)

\* refillBuffer with READ returning k, for cursor <= cursorEnd
refillBuffer(s, k) ==
    LET unprocessed == s.cursorEnd - s.cursor
        n        == IF k > 0 THEN k ELSE 0
        front    == Window(s) \o SubSeq(s.input, s.offset + 1, s.offset + n)
        buffer1  == front \o SubSeq(s.buffer, Len(front) + 1, Len(s.buffer))
    IN  [s EXCEPT !.buffer = buffer1,
                  !.offset = @ + n,
                  !.cursor = IF k = 0 THEN BUFFER_SIZE ELSE 0,
                  !.cursorEnd = IF k = 0 THEN BUFFER_SIZE
                                ELSE unprocessed + n]

(***************************************************************************)
(* The classification of the construct at the cursor, lines 142-568.       *)
(***************************************************************************)
At(s, j) == Byte(s, s.cursor + j)

IsXmlns(s) ==
    /\ s.inTag
    /\ Strncmp(s, s.cursor, <<"x", "m", "l", "n", "s">>)[1]
    /\ At(s, 5) \in {":", "="}

IsCommentStart(s) ==
    At(s, 1) = "!" /\ At(s, 0) = "<" /\ At(s, 2) = "-" /\ At(s, 3) = "-"

IsCDATAStart(s) ==
    /\ At(s, 1) = "!" /\ At(s, 0) = "<" /\ At(s, 2) = "["
    /\ Strncmp(s, s.cursor + 3, <<"C", "D", "A", "T", "A", "[">>)[1]

IsXmlDecl(s) ==
    /\ At(s, 1) = "?" /\ At(s, 0) = "<"
    /\ Strncmp(s, s.cursor, <<"<", "?", "x", "m", "l", " ">>)[1]

\* the chain with the comment and CDATA tests placed before the inTag tests
ClassifyCommentBeforeTag(s) ==
    IF s.cursorEnd - s.cursor < 5 THEN "refill"
    ELSE IF s.inXMLComment \/ IsCommentStart(s) THEN "comment"
    ELSE IF s.inCDATA \/ IsCDATAStart(s) THEN "cdata"
    ELSE IF IsXmlns(s) THEN "namespace"
    ELSE IF s.inTag THEN "attribute"
    ELSE IF IsXmlDecl(s) THEN "xmldecl"
    ELSE IF At(s, 1) = "?" /\ At(s, 0) = "<" THEN "pi"
    ELSE IF At(s, 1) = "/" /\ At(s, 0) = "<" THEN "endtag"
    ELSE IF At(s, 0) = "<" THEN "starttag"
    ELSE IF s.depth = 0 THEN "outside"
    ELSE IF At(s, 0) = "&" THEN "entity"
    ELSE "characters"

\* the branch of the if-else chain the iteration takes
Classify(s) ==
    IF s.cursorEnd - s.cursor < 5 THEN "refill"
    ELSE IF IsXmlns(s) THEN "namespace"
    ELSE IF s.inTag THEN "attribute"
    ELSE IF s.inXMLComment \/ IsCommentStart(s) THEN "comment"
    ELSE IF s.inCDATA \/ IsCDATAStart(s) THEN "cdata"
    ELSE IF IsXmlDecl(s) THEN "xmldecl"
    ELSE IF At(s, 1) = "?" /\ At(s, 0) = "<" THEN "pi"
    ELSE IF At(s, 1) = "/" /\ At(s, 0) = "<" THEN "endtag"
    ELSE IF At(s, 0) = "<" THEN "starttag"
    ELSE IF s.depth = 0 THEN "outside"
    ELSE IF At(s, 0) = "&" THEN "entity"
    ELSE "characters"

\* the bytes the conditions of the chain read beyond cursor[4], which is
\* as far as the five bytes the loop makes sure of reach
ClassifyReads(s) ==
    LET ns  == Strncmp(s, s.cursor, <<"x", "m", "l", "n", "s">>)
        cd  == Strncmp(s, s.cursor + 3, <<"C", "D", "A", "T", "A", "[">>)
        xd  == Strncmp(s, s.cursor, <<"<", "?", "x", "m", "l", " ">>)
    IN  IF s.cursorEnd - s.cursor < 5 THEN {}
        ELSE IF s.inTag THEN (IF ns[1] THEN {s.cursor + 5} ELSE {})
        ELSE IF s.inXMLComment \/ IsCommentStart(s) \/ s.inCDATA THEN {}
        ELSE (IF At(s, 1) = "!" /\ At(s, 0) = "<" /\ At(s, 2) = "["
              THEN (s.cursor + 3)..(s.cursor + 2 + cd[2]) ELSE {})
             \cup
             (IF ~IsCDATAStart(s) /\ At(s, 1) = "?" /\ At(s, 0) = "<"
              THEN s.cursor..(s.cursor + xd[2] - 1) ELSE {})

(***************************************************************************)
(* The report after the loop, lines 578-602: the url and the nine values   *)
(* of the table, in the order of its rows.                                 *)
(***************************************************************************)
Report(s) ==
    LET files == IF s.isArchive THEN s.unitCount - 1 ELSE s.unitCount
    IN  [s EXCEPT !.pc = "exit0",
                  !.stdout = <<s.url, s.totalBytes, s.textsize, files, s.loc,
                               s.classCount, s.functionCount, s.declCount,
                               s.exprCount, s.commentCount>>]

\* the refill at the head of the loop with a failed read leaving the loop
\* by break, so that the report is written before the error is returned
MainRefillBreakOnError(s, k) ==
    IF s.cursor > s.cursorEnd THEN Undefined(s)
    ELSE LET r == [refillBuffer(s, k) EXCEPT !.readSite = "main"]
         IN  IF k < 0 THEN Err(Report(r), "File input error")
             ELSE LET t == [r EXCEPT !.totalBytes = @ + k]
                  IN  IF ~t.inXMLComment /\ ~t.inCDATA /\ t.cursor = t.cursorEnd
                      THEN Report(t)
                      ELSE t

(***************************************************************************)
(* The refill at the head of the loop, lines 142-151.                      *)
(***************************************************************************)
MainRefill(s, k) ==
    IF s.cursor > s.cursorEnd THEN Undefined(s)
    ELSE LET r == [refillBuffer(s, k) EXCEPT !.readSite = "main"]
         IN  IF k < 0 THEN Err(r, "File input error")
             ELSE LET t == [r EXCEPT !.totalBytes = @ + k]
                  IN  IF ~t.inXMLComment /\ ~t.inCDATA /\ t.cursor = t.cursorEnd
                      THEN Report(t)
                      ELSE t

\* the end of a tag header with "/>" treated as an end tag: depth goes down
CloseHeaderSelfClosingPops(s, c) ==
    LET r == Reads(s, IF Byte(s, c) # ">" /\ Byte(s, c) = "/"
                      THEN {c, c + 1} ELSE {c})
    IN  IF Byte(s, c) = ">"
        THEN [r EXCEPT !.cursor = c + 1, !.inTag = FALSE, !.depth = @ + 1]
        ELSE IF Byte(s, c) = "/" /\ Byte(s, c + 1) = ">"
        THEN [r EXCEPT !.cursor = c + 2, !.inTag = FALSE, !.depth = @ - 1]
        ELSE [r EXCEPT !.cursor = c]

(***************************************************************************)
(* The end of a tag header, lines 187-195 and 247-255: c is the cursor.    *)
(***************************************************************************)
CloseHeader(s, c) ==
    LET r == Reads(s, IF Byte(s, c) # ">" /\ Byte(s, c) = "/"
                      THEN {c, c + 1} ELSE {c})
    IN  IF Byte(s, c) = ">"
        THEN [r EXCEPT !.cursor = c + 1, !.inTag = FALSE, !.depth = @ + 1]
        ELSE IF Byte(s, c) = "/" /\ Byte(s, c + 1) = ">"
        THEN [r EXCEPT !.cursor = c + 2, !.inTag = FALSE]
        ELSE [r EXCEPT !.cursor = c]

\* the namespace declaration that closes the header without counting the
\* element it opens
ParseNamespaceKeepsDepth(s) ==
    LET c1       == s.cursor + 5
        nameEnd  == Find(s, c1, s.cursorEnd, LAMBDA b : b = "=")
        c3       == Find(s, nameEnd + 1, s.cursorEnd, LAMBDA b : ~isspace(b))
        delimiter == Byte(s, c3)
        valueEnd == Find(s, c3 + 1, s.cursorEnd, LAMBDA b : b = delimiter)
        c4       == Find(s, valueEnd + 1, s.cursorEnd, LAMBDA b : ~isspace(b))
    IN  IF nameEnd = s.cursorEnd THEN Err(s, "incomplete namespace")
        ELSE IF c3 = s.cursorEnd THEN Err(s, "incomplete namespace")
        ELSE IF delimiter \notin {"\"", "'"} THEN Err(s, "incomplete namespace")
        ELSE IF valueEnd = s.cursorEnd THEN Err(s, "incomplete namespace")
        ELSE [CloseHeader(s, c4) EXCEPT !.depth = s.depth]

(***************************************************************************)
(* The namespace declaration, lines 152-195.                               *)
(***************************************************************************)
ParseNamespace(s) ==
    LET c1       == s.cursor + 5
        nameEnd  == Find(s, c1, s.cursorEnd, LAMBDA b : b = "=")
        c2       == IF Byte(s, c1) = ":" THEN c1 + 1 ELSE c1
        prefix   == IF Byte(s, c1) = ":" THEN Slice(s, c2, nameEnd) ELSE <<>>
        c3       == Find(s, nameEnd + 1, s.cursorEnd, LAMBDA b : ~isspace(b))
        delimiter == Byte(s, c3)
        valueEnd == Find(s, c3 + 1, s.cursorEnd, LAMBDA b : b = delimiter)
        c4       == Find(s, valueEnd + 1, s.cursorEnd, LAMBDA b : ~isspace(b))
    IN  IF nameEnd = s.cursorEnd THEN Err(s, "incomplete namespace")
        ELSE IF c3 = s.cursorEnd THEN Err(s, "incomplete namespace")
        ELSE IF delimiter \notin {"\"", "'"} THEN Err(s, "incomplete namespace")
        ELSE IF valueEnd = s.cursorEnd THEN Err(s, "incomplete namespace")
        ELSE CloseHeader(s, c4)

(***************************************************************************)
(* The attribute, lines 196-255.                                           *)
(***************************************************************************)
\* std::string_view::find(':'): the position in q, or Len(q) + 1 for npos
ColonPosition(q) ==
    LET hits == {i \in 1..Len(q) : q[i] = ":"}
    IN  IF hits = {} THEN Len(q) + 1 ELSE SetMin(hits) - 1

ParseAttribute(s, ub) ==
    LET nameEnd  == Find(s, s.cursor, s.cursorEnd, LAMBDA b : ~tagNameMask(b))
        qName    == Slice(s, s.cursor, nameEnd)
        found    == ColonPosition(qName)
        colonPosition == IF found = Len(qName) + 1 THEN 0 ELSE found
        skip     == IF colonPosition # 0 THEN colonPosition + 1 ELSE 0
        localName == SubSeq(qName, skip + 1, Len(qName))
        c1       == IF isspace(Byte(s, nameEnd))
                    THEN Find(s, nameEnd, s.cursorEnd, LAMBDA b : ~isspace(b))
                    ELSE nameEnd
        c2       == c1 + 1
        c3       == IF isspace(Byte(s, c2))
                    THEN Find(s, c2, s.cursorEnd, LAMBDA b : ~isspace(b))
                    ELSE c2
        delimiter == Byte(s, c3)
        c4       == c3 + 1
        valueEnd == FindU(s, c4, s.cursorEnd, LAMBDA b : b = delimiter, ub)
        value    == Slice(s, c4, valueEnd)
        c5       == valueEnd + 1
        c6       == IF isspace(Byte(s, c5))
                    THEN FindU(s, c5 + 1, s.cursorEnd,
                               LAMBDA b : ~isspace(b), ub)
                    ELSE c5
        r1       == Reads(s, {c2, c3})
        r2       == Reads([r1 EXCEPT !.url = IF localName = <<"u", "r", "l">>
                                              THEN value ELSE @],
                          {c5})
    IN  IF nameEnd = s.cursorEnd THEN Err(s, "Empty attribute name")
        ELSE IF found = 0 THEN Err(s, "Invalid attribute name")
        ELSE IF c1 = s.cursorEnd THEN Err(s, "incomplete attribute")
        ELSE IF Byte(s, c1) # "=" THEN Err(s, "missing =")
        ELSE IF delimiter \notin {"\"", "'"} THEN Err(r1, "missing delimiter")
        ELSE IF valueEnd = OFF THEN Undefined(r1)
        ELSE IF valueEnd = s.cursorEnd THEN Err(r1, "missing delimiter")
        ELSE CloseHeader(r2, c6)

(***************************************************************************)
(* The XML comment, lines 256-272.                                         *)
(***************************************************************************)
ParseComment(s) ==
    LET c      == IF ~s.inXMLComment THEN s.cursor + 4 ELSE s.cursor
        tagEnd == Search(s, c, s.cursorEnd, <<"-", "-", ">">>)
    IN  IF s.cursor = s.cursorEnd THEN Err(s, "Unterminated XML comment")
        ELSE [s EXCEPT !.inXMLComment = (tagEnd = s.cursorEnd),
                       !.cursor = IF tagEnd = s.cursorEnd THEN tagEnd
                                  ELSE tagEnd + 3]

\* the CDATA section with the cursor advanced over "<![CDATA" only, so that
\* the '[' that ends the opening is counted with the characters
ParseCDATAShortAdvance(s) ==
    LET c      == IF ~s.inCDATA THEN s.cursor + 8 ELSE s.cursor
        tagEnd == Search(s, c, s.cursorEnd, <<"]", "]", ">">>)
        characters == Slice(s, c, tagEnd)
    IN  IF s.cursor = s.cursorEnd THEN Err(s, "Unterminated CDATA")
        ELSE IF c > s.cursorEnd THEN Undefined([s EXCEPT !.cursor = c])
        ELSE [s EXCEPT !.inCDATA = (tagEnd = s.cursorEnd),
                       !.textsize = @ + Len(characters),
                       !.loc = @ + CountNL(characters),
                       !.cursor = IF tagEnd = s.cursorEnd THEN tagEnd
                                  ELSE tagEnd + 3]

(***************************************************************************)
(* The CDATA section, lines 273-292.  With fewer than nine bytes in the    *)
(* window the cursor is advanced behind cursorEnd, and the search and the  *)
(* count that follow run on an invalid range.                              *)
(***************************************************************************)
ParseCDATA(s) ==
    LET c      == IF ~s.inCDATA THEN s.cursor + 9 ELSE s.cursor
        tagEnd == Search(s, c, s.cursorEnd, <<"]", "]", ">">>)
        characters == Slice(s, c, tagEnd)
    IN  IF s.cursor = s.cursorEnd THEN Err(s, "Unterminated CDATA")
        ELSE IF c > s.cursorEnd THEN Undefined([s EXCEPT !.cursor = c])
        ELSE [s EXCEPT !.inCDATA = (tagEnd = s.cursorEnd),
                       !.textsize = @ + Len(characters),
                       !.loc = @ + CountNL(characters),
                       !.cursor = IF tagEnd = s.cursorEnd THEN tagEnd
                                  ELSE tagEnd + 3]

\* the refill inside a handler without the addition to totalBytes
HandlerRefillUncounted(s, k) ==
    LET r == [refillBuffer(s, k) EXCEPT !.readSite = "handler"]
    IN  IF k < 0 THEN Err(r, "File input error") ELSE r

(***************************************************************************)
(* The refill inside a handler, lines 299-304, 407-412, 435-440, 479-484:  *)
(* done when the handler's search found no end in the window.              *)
(***************************************************************************)
HandlerRefill(s, k) ==
    LET r == [refillBuffer(s, k) EXCEPT !.readSite = "handler"]
    IN  IF k < 0 THEN Err(r, "File input error")
        ELSE [r EXCEPT !.totalBytes = @ + k]

(***************************************************************************)
(* The XML declaration, lines 293-401.                                     *)
(***************************************************************************)
\* one of the optional attributes, lines 342-359 and 372-389, from c:
\* the error it ends with, if any, its name, and the cursor behind its value
DeclAttribute(s, c, tagEnd, ub) ==
    LET nameEnd  == FindU(s, c, tagEnd, LAMBDA b : b = "=", ub)
        attr2    == Slice(s, c, nameEnd)
        c1       == nameEnd + 1
        delimiter2 == Byte(s, c1)
        valueEnd == FindU(s, c1 + 1, tagEnd, LAMBDA b : b = delimiter2, ub)
    IN  IF nameEnd = OFF \/ valueEnd = OFF
        THEN [err |-> "undefined", name |-> <<>>, next |-> c, read |-> {}]
        ELSE IF nameEnd = tagEnd
        THEN [err |-> "Incomplete attribute in XML declaration",
              name |-> <<>>, next |-> c, read |-> {}]
        ELSE IF delimiter2 \notin {"\"", "'"}
        THEN [err |-> "Invalid end delimiter for attribute in XML declaration",
              name |-> attr2, next |-> c1, read |-> {c1}]
        ELSE IF valueEnd = tagEnd
        THEN [err |-> "Incomplete attribute in XML declaration",
              name |-> attr2, next |-> c1, read |-> {c1}]
        ELSE [err |-> "", name |-> attr2, next |-> valueEnd + 1,
              read |-> {c1}]

Encoding == <<"e", "n", "c", "o", "d", "i", "n", "g">>
Standalone == <<"s", "t", "a", "n", "d", "a", "l", "o", "n", "e">>
Version == <<"v", "e", "r", "s", "i", "o", "n">>

\* lines 399-401: c is the cursor at the closing "?>"
DeclEnd(s, c, ub) ==
    [s EXCEPT !.cursor = FindU(s, c + 2, s.cursorEnd,
                               LAMBDA b : ~isspace(b), ub)]

\* lines 371-398: the attribute at c, if the cursor is not at the "?>";
\* standalone tells whether the attribute before it was standalone
DeclThird(s, tagEnd, c, standalone, ub) ==
    IF c = tagEnd - 1 THEN DeclEnd(s, c, ub)
    ELSE LET a == DeclAttribute(s, c, tagEnd, ub)
             r == Reads(s, a.read)
         IN  IF a.err = "undefined" THEN Undefined(s)
             ELSE IF a.err # "" THEN Err(r, a.err)
             ELSE IF ~(~standalone /\ a.name = Standalone)
             THEN Err(r, "Invalid attribute in XML declaration")
             ELSE DeclEnd(r, FindU(s, a.next, tagEnd,
                                   LAMBDA b : ~isspace(b), ub), ub)

\* lines 341-370: the attribute at c, if the cursor is not at the "?>"
DeclSecond(s, tagEnd, c, ub) ==
    IF c = tagEnd - 1 THEN DeclThird(s, tagEnd, c, FALSE, ub)
    ELSE LET a == DeclAttribute(s, c, tagEnd, ub)
             r == Reads(s, a.read)
         IN  IF a.err = "undefined" THEN Undefined(s)
             ELSE IF a.err # "" THEN Err(r, a.err)
             ELSE IF a.name \notin {Encoding, Standalone}
             THEN Err(r, "Invalid attribute in XML declaration")
             ELSE DeclThird(r, tagEnd,
                            FindU(s, a.next, tagEnd,
                                  LAMBDA b : ~isspace(b), ub),
                            a.name = Standalone, ub)

\* lines 310-337, once the closing '>' is known to be at tagEnd
ParseXMLDeclBody(s, tagEnd, ub) ==
    LET c1       == Find(s, s.cursor + 5, tagEnd, LAMBDA b : ~isspace(b))
        nameEnd  == Find(s, c1, tagEnd, LAMBDA b : b = "=")
        attr     == Slice(s, c1, nameEnd)
        c2       == nameEnd + 1
        delimiter == Byte(s, c2)
        valueEnd == FindU(s, c2 + 1, tagEnd, LAMBDA b : b = delimiter, ub)
        r1       == Reads(s, {c2})
    IN  IF c1 = tagEnd
        THEN Err(s, "Missing space after before version in XML declaration")
        ELSE IF delimiter \notin {"\"", "'"}
        THEN Err(r1, "Invalid start delimiter for version in XML declaration")
        ELSE IF valueEnd = OFF THEN Undefined(r1)
        ELSE IF valueEnd = tagEnd
        THEN Err(r1, "Invalid end delimiter for version in XML declaration")
        ELSE IF attr # Version
        THEN Err(r1, "Missing required first attribute version in XML declaration")
        ELSE DeclSecond(r1, tagEnd,
                        FindU(s, valueEnd + 1, tagEnd,
                              LAMBDA b : ~isspace(b), ub), ub)

ParseXMLDecl(s, k, ub) ==
    LET tagEnd0 == Find(s, s.cursor, s.cursorEnd, LAMBDA b : b = ">")
        r       == HandlerRefill(s, k)
        tagEnd1 == Find(r, r.cursor, r.cursorEnd, LAMBDA b : b = ">")
    IN  IF tagEnd0 # s.cursorEnd THEN ParseXMLDeclBody(s, tagEnd0, ub)
        ELSE IF r.pc # "run" THEN r
        ELSE IF tagEnd1 = r.cursorEnd
        THEN Err(r, "Incomplete XML declaration")
        ELSE ParseXMLDeclBody(r, tagEnd1, ub)

(***************************************************************************)
(* The processing instruction, lines 402-429.                              *)
(***************************************************************************)
ParsePIBody(s, tagEnd, ub) ==
    LET c1      == s.cursor + 2
        nameEnd == FindU(s, c1, tagEnd, LAMBDA b : ~tagNameMask(b), ub)
    IN  IF nameEnd = tagEnd
        THEN Err(s, "Unterminated processing instruction")
        ELSE [s EXCEPT !.cursor = tagEnd + 2]

ParsePI(s, k, ub) ==
    LET endPI   == <<"?", ">">>
        tagEnd0 == Search(s, s.cursor, s.cursorEnd, endPI)
        r       == HandlerRefill(s, k)
        tagEnd1 == Search(r, r.cursor, r.cursorEnd, endPI)
    IN  IF tagEnd0 # s.cursorEnd THEN ParsePIBody(s, tagEnd0, ub)
        ELSE IF r.pc # "run" THEN r
        ELSE IF tagEnd1 = r.cursorEnd
        THEN Err(r, "Incomplete XML declaration")
        ELSE ParsePIBody(r, tagEnd1, ub)

(***************************************************************************)
(* The name of an element, lines 452-470 and 496-514, from c1: the end of  *)
(* the qualified name and the offset of the local name in it.              *)
(***************************************************************************)
ElementName(s, c1) ==
    LET nameEnd0 == Find(s, c1, s.cursorEnd, LAMBDA b : ~tagNameMask(b))
        colon    == nameEnd0 # s.cursorEnd /\ Byte(s, nameEnd0) = ":"
        colonPosition == IF colon THEN nameEnd0 - c1 ELSE 0
        nameEnd  == IF colon
                    THEN Find(s, nameEnd0 + 1, s.cursorEnd,
                              LAMBDA b : ~tagNameMask(b))
                    ELSE nameEnd0
    IN  [unterminated |-> nameEnd0 = s.cursorEnd,
         nameEnd |-> nameEnd,
         qName |-> Slice(s, c1, nameEnd),
         localName |-> Slice(s, c1 + (IF colonPosition # 0
                                       THEN colonPosition + 1 ELSE 0),
                             nameEnd)]

(***************************************************************************)
(* The end tag, lines 430-473.                                             *)
(***************************************************************************)
ParseEndTagBody(s) ==
    LET c1 == s.cursor + 2
        n  == ElementName(s, c1)
        r  == Reads(s, {c1})
    IN  IF Byte(s, c1) = ":" THEN Err(r, "Invalid end tag name")
        ELSE IF n.unterminated THEN Err(r, "Unterminated end tag")
        ELSE IF n.qName = <<>> THEN Err(r, "EndTag: invalid element name")
        ELSE [r EXCEPT !.cursor = n.nameEnd + 1, !.depth = @ - 1]

ParseEndTag(s, k) ==
    LET tagEnd0 == Find(s, s.cursor, s.cursorEnd, LAMBDA b : b = ">")
        r       == HandlerRefill(s, k)
        tagEnd1 == Find(r, r.cursor, r.cursorEnd, LAMBDA b : b = ">")
    IN  IF s.cursorEnd - s.cursor >= EndTagLookahead \/ tagEnd0 # s.cursorEnd
        THEN ParseEndTagBody(s)
        ELSE IF r.pc # "run" THEN r
        ELSE IF tagEnd1 = r.cursorEnd
        THEN Err(r, "Incomplete element end tag")
        ELSE ParseEndTagBody(r)

(***************************************************************************)
(* The start tag, lines 474-545.  inTagQName, inTagPrefix and              *)
(* inTagLocalName are written here and read by the trace output only.      *)
(***************************************************************************)
\* the counters with the archive noticed at a unit at depth 0
CountElementArchiveAtRoot(s, localName) ==
    IF localName = <<"e", "x", "p", "r">>
    THEN [s EXCEPT !.exprCount = @ + 1]
    ELSE IF localName = <<"d", "e", "c", "l">>
    THEN [s EXCEPT !.declCount = @ + 1]
    ELSE IF localName = <<"c", "o", "m", "m", "e", "n", "t">>
    THEN [s EXCEPT !.commentCount = @ + 1]
    ELSE IF localName = <<"f", "u", "n", "c", "t", "i", "o", "n">>
    THEN [s EXCEPT !.functionCount = @ + 1]
    ELSE IF localName = <<"u", "n", "i", "t">>
    THEN [s EXCEPT !.unitCount = @ + 1,
                   !.isArchive = IF s.depth = 0 THEN TRUE ELSE @]
    ELSE IF localName = <<"c", "l", "a", "s", "s">>
    THEN [s EXCEPT !.classCount = @ + 1]
    ELSE s

\* lines 516-530
CountElement(s, localName) ==
    IF localName = <<"e", "x", "p", "r">>
    THEN [s EXCEPT !.exprCount = @ + 1]
    ELSE IF localName = <<"d", "e", "c", "l">>
    THEN [s EXCEPT !.declCount = @ + 1]
    ELSE IF localName = <<"c", "o", "m", "m", "e", "n", "t">>
    THEN [s EXCEPT !.commentCount = @ + 1]
    ELSE IF localName = <<"f", "u", "n", "c", "t", "i", "o", "n">>
    THEN [s EXCEPT !.functionCount = @ + 1]
    ELSE IF localName = <<"u", "n", "i", "t">>
    THEN [s EXCEPT !.unitCount = @ + 1,
                   !.isArchive = IF s.depth = 1 THEN TRUE ELSE @]
    ELSE IF localName = <<"c", "l", "a", "s", "s">>
    THEN [s EXCEPT !.classCount = @ + 1]
    ELSE s

\* lines 531-545: c is the end of the name
StartTagEnd(s, c) ==
    LET c1 == IF Byte(s, c) # ">"
              THEN Find(s, c, s.cursorEnd, LAMBDA b : ~isspace(b)) ELSE c
        r  == Reads(s, IF Byte(s, c1) # ">" /\ Byte(s, c1) = "/"
                       THEN {c, c1, c1 + 1} ELSE {c, c1})
    IN  IF Byte(s, c1) = ">"
        THEN [r EXCEPT !.cursor = c1 + 1, !.depth = @ + 1]
        ELSE IF Byte(s, c1) = "/" /\ Byte(s, c1 + 1) = ">"
        THEN [r EXCEPT !.cursor = c1 + 2]
        ELSE [r EXCEPT !.cursor = c1, !.inTag = TRUE]

\* the start tag with the archive noticed only when the header of the unit is
\* closed by '>'
ParseStartTagBodyArchiveIfOpened(s) ==
    LET c1 == s.cursor + 1
        n  == ElementName(s, c1)
        r  == Reads(s, {c1})
        t  == StartTagEnd(CountElement(r, n.localName), n.nameEnd)
    IN  IF Byte(s, c1) = ":" THEN Err(r, "Invalid start tag name")
        ELSE IF n.unterminated THEN Err(r, "Unterminated start tag")
        ELSE IF n.qName = <<>> THEN Err(r, "StartTag: invalid element name")
        ELSE [t EXCEPT !.isArchive = s.isArchive
                                      \/ (@ /\ t.depth = s.depth + 1)]

\* the start tag with the counters chosen by the qualified name
ParseStartTagBodyByQName(s) ==
    LET c1 == s.cursor + 1
        n  == ElementName(s, c1)
        r  == Reads(s, {c1})
    IN  IF Byte(s, c1) = ":" THEN Err(r, "Invalid start tag name")
        ELSE IF n.unterminated THEN Err(r, "Unterminated start tag")
        ELSE IF n.qName = <<>> THEN Err(r, "StartTag: invalid element name")
        ELSE StartTagEnd(CountElement(r, n.qName), n.nameEnd)

ParseStartTagBody(s) ==
    LET c1 == s.cursor + 1
        n  == ElementName(s, c1)
        r  == Reads(s, {c1})
    IN  IF Byte(s, c1) = ":" THEN Err(r, "Invalid start tag name")
        ELSE IF n.unterminated THEN Err(r, "Unterminated start tag")
        ELSE IF n.qName = <<>> THEN Err(r, "StartTag: invalid element name")
        ELSE StartTagEnd(CountElement(r, n.localName), n.nameEnd)

ParseStartTag(s, k) ==
    LET tagEnd0 == Find(s, s.cursor, s.cursorEnd, LAMBDA b : b = ">")
        r       == HandlerRefill(s, k)
        tagEnd1 == Find(r, r.cursor, r.cursorEnd, LAMBDA b : b = ">")
    IN  IF s.cursorEnd - s.cursor >= StartTagLookahead \/ tagEnd0 # s.cursorEnd
        THEN ParseStartTagBody(s)
        ELSE IF r.pc # "run" THEN r
        ELSE IF tagEnd1 = r.cursorEnd
        THEN Err(r, "Incomplete element start tag")
        ELSE ParseStartTagBody(r)

(***************************************************************************)
(* Characters before or after the document, lines 546-548.                 *)
(***************************************************************************)
ParseOutside(s) ==
    [s EXCEPT !.cursor = Find(s, s.cursor, s.cursorEnd,
                              LAMBDA b : ~isspace(b))]

(***************************************************************************)
(* The entity reference, lines 549-566.                                    *)
(***************************************************************************)
ParseEntity(s) ==
    LET n == IF At(s, 1) = "l" /\ At(s, 2) = "t" /\ At(s, 3) = ";" THEN 4
             ELSE IF At(s, 1) = "g" /\ At(s, 2) = "t" /\ At(s, 3) = ";" THEN 4
             ELSE IF At(s, 1) = "a" /\ At(s, 2) = "m" /\ At(s, 3) = "p"
                     /\ At(s, 4) = ";" THEN 5
             ELSE 1
    IN  [s EXCEPT !.cursor = @ + n, !.textsize = @ + 1]

(***************************************************************************)
(* Character data, lines 568-576.                                          *)
(***************************************************************************)
ParseCharacters(s) ==
    LET tagEnd == Find(s, s.cursor, s.cursorEnd, LAMBDA b : b \in {"<", "&"})
        characters == Slice(s, s.cursor, tagEnd)
    IN  [s EXCEPT !.loc = @ + CountNL(characters),
                  !.textsize = @ + Len(characters),
                  !.cursor = @ + Len(characters)]

(***************************************************************************)
(* One iteration of the loop, lines 141-577: READ returns k if the         *)
(* iteration refills, and ub resolves its undefined calls.                 *)
(***************************************************************************)
Handle(s, h, k, ub) ==
    IF h = "refill" THEN MainRefill(s, k)
    ELSE IF h = "namespace" THEN ParseNamespace(s)
    ELSE IF h = "attribute" THEN ParseAttribute(s, ub)
    ELSE IF h = "comment" THEN ParseComment(s)
    ELSE IF h = "cdata" THEN ParseCDATA(s)
    ELSE IF h = "xmldecl" THEN ParseXMLDecl(s, k, ub)
    ELSE IF h = "pi" THEN ParsePI(s, k, ub)
    ELSE IF h = "endtag" THEN ParseEndTag(s, k)
    ELSE IF h = "starttag" THEN ParseStartTag(s, k)
    ELSE IF h = "outside" THEN ParseOutside(s)
    ELSE IF h = "entity" THEN ParseEntity(s)
    ELSE ParseCharacters(s)

Iteration(s, k, ub) ==
    LET h == Classify(s)
        r == [Reads(s, ClassifyReads(s)) EXCEPT !.readSite = "none"]
    IN  [Handle(r, h, k, ub) EXCEPT !.branch = h]

(***************************************************************************)
(* A whole run as a function: the iterations are taken one after the      *)
(* other, the reads deliver plan[1], plan[2], ... bytes and then all that  *)
(* remains, and undefined calls are resolved by ub.  The run ends when     *)
(* main() has returned or when an iteration changes nothing, which the     *)
(* loop then repeats for ever.                                             *)
(***************************************************************************)
RECURSIVE RunFrom(_, _, _)
RunFrom(s, plan, ub) ==
    IF s.pc # "run" THEN s
    ELSE LET rest == Len(s.input) - s.offset
             k    == IF plan # <<>> THEN Min(Head(plan), rest) ELSE rest
             r    == Iteration(s, k, ub)
         IN  IF r = s THEN s
             ELSE RunFrom(r, IF plan # <<>> /\ r.offset # s.offset
                             THEN Tail(plan) ELSE plan, ub)

\* the results of the undefined calls
Resolutions == {"last", "scan"}

\* the state in which the branch the classification chose starts
Classified == [Reads(St, ClassifyReads(St)) EXCEPT !.readSite = "none"]

Refill ==
    /\ pc = "run"
    /\ Classify(St) = "refill"
    /\ \E k \in ReadResults(St) :
       Becomes([MainRefill(Classified, k) EXCEPT !.branch = "refill"])

Namespace ==
    /\ pc = "run"
    /\ Classify(St) = "namespace"
    /\ Becomes([ParseNamespace(Classified) EXCEPT !.branch = "namespace"])

Attribute ==
    /\ pc = "run"
    /\ Classify(St) = "attribute"
    /\ \E ub \in Resolutions :
       Becomes([ParseAttribute(Classified, ub) EXCEPT !.branch = "attribute"])

Comment ==
    /\ pc = "run"
    /\ Classify(St) = "comment"
    /\ Becomes([ParseComment(Classified) EXCEPT !.branch = "comment"])

CDATA ==
    /\ pc = "run"
    /\ Classify(St) = "cdata"
    /\ Becomes([ParseCDATA(Classified) EXCEPT !.branch = "cdata"])

XMLDecl ==
    /\ pc = "run"
    /\ Classify(St) = "xmldecl"
    /\ \E k \in ReadResults(St) : \E ub \in Resolutions :
       Becomes([ParseXMLDecl(Classified, k, ub) EXCEPT !.branch = "xmldecl"])

PI ==
    /\ pc = "run"
    /\ Classify(St) = "pi"
    /\ \E k \in ReadResults(St) : \E ub \in Resolutions :
       Becomes([ParsePI(Classified, k, ub) EXCEPT !.branch = "pi"])

EndTag ==
    /\ pc = "run"
    /\ Classify(St) = "endtag"
    /\ \E k \in ReadResults(St) :
       Becomes([ParseEndTag(Classified, k) EXCEPT !.branch = "endtag"])

StartTag ==
    /\ pc = "run"
    /\ Classify(St) = "starttag"
    /\ \E k \in ReadResults(St) :
       Becomes([ParseStartTag(Classified, k) EXCEPT !.branch = "starttag"])

Outside ==
    /\ pc = "run"
    /\ Classify(St) = "outside"
    /\ Becomes([ParseOutside(Classified) EXCEPT !.branch = "outside"])

Entity ==
    /\ pc = "run"
    /\ Classify(St) = "entity"
    /\ Becomes([ParseEntity(Classified) EXCEPT !.branch = "entity"])

Characters ==
    /\ pc = "run"
    /\ Classify(St) = "characters"
    /\ Becomes([ParseCharacters(Classified) EXCEPT !.branch = "characters"])

\* the locals of main before the loop, lines 118-139
Started ==
    /\ offset = InitSt.offset
    /\ buffer = InitSt.buffer
    /\ cursor = InitSt.cursor
    /\ cursorEnd = InitSt.cursorEnd
    /\ totalBytes = InitSt.totalBytes
    /\ inTag = InitSt.inTag
    /\ inXMLComment = InitSt.inXMLComment
    /\ inCDATA = InitSt.inCDATA
    /\ depth = InitSt.depth
    /\ textsize = InitSt.textsize
    /\ loc = InitSt.loc
    /\ exprCount = InitSt.exprCount
    /\ functionCount = InitSt.functionCount
    /\ classCount = InitSt.classCount
    /\ unitCount = InitSt.unitCount
    /\ declCount = InitSt.declCount
    /\ commentCount = InitSt.commentCount
    /\ isArchive = InitSt.isArchive
    /\ url = InitSt.url
    /\ pc = InitSt.pc
    /\ diag = InitSt.diag
    /\ stdout = InitSt.stdout
    /\ oob = InitSt.oob
    /\ branch = InitSt.branch
    /\ readSite = InitSt.readSite

Init ==
    /\ \/ \E d \in [1..MaxToks -> 0..Len(Fragments)] :
             input = Cat(d, MaxToks)
       \/ input \in ExtraDocs
    /\ Started

Next ==
    \/ Refill
    \/ Namespace
    \/ Attribute
    \/ Comment
    \/ CDATA
    \/ XMLDecl
    \/ PI
    \/ EndTag
    \/ StartTag
    \/ Outside
    \/ Entity
    \/ Characters

Spec == Init /\ [][Next]_vars

(***************************************************************************)
(* The XML declaration handler on its own: the input is a declaration of   *)
(* up to MaxDeclAttrs attributes and a newline, delivered by one read.     *)
(***************************************************************************)
\* the attribute names a generated declaration draws from
DeclNames == <<Version, Encoding, Standalone, <<"x">>>>

\* the sequences of attribute names, as indices of DeclNames
DeclSeqs == UNION {[1..n -> 1..Len(DeclNames)] : n \in 1..MaxDeclAttrs}

\* the first n attributes of q, each written as  name='1'  behind a space
RECURSIVE DeclAttrs(_, _)
DeclAttrs(q, n) ==
    IF n = 0 THEN <<>>
    ELSE DeclAttrs(q, n - 1) \o <<" ">> \o DeclNames[q[n]]
                             \o <<"=", "'", "1", "'">>

DeclDoc(q) ==
    <<"<", "?", "x", "m", "l">> \o DeclAttrs(q, Len(q)) \o <<"?", ">", "\n">>

DeclInit ==
    /\ \E q \in DeclSeqs : input = DeclDoc(q)
    /\ Started

\* the refill of the main loop with a read that delivers all that remains
WholeRefill == Refill /\ offset' = Len(input)

DeclNext ==
    \/ WholeRefill
    \/ XMLDecl
    \/ Outside

DeclSpec == DeclInit /\ [][DeclNext]_vars

(***************************************************************************)
(* Properties of the scanner.                                              *)
(***************************************************************************)

Exited == pc \in {"exit0", "exit1"}

\* a read failed: the run ends with "File input error" whatever the document
ReadFailed == diag = "File input error"

\* read() has returned 0: refillBuffer has parked both window ends at cend()
EndOfInputSeen ==
    /\ branch = "refill"
    /\ offset = Len(input)
    /\ cursor = BUFFER_SIZE
    /\ cursorEnd = BUFFER_SIZE

\* the state in which the run that is in the current state ends when no read
\* fails and the next read delivers all that remains of the input: the state
\* in which main() returns, or the state the loop repeats for ever
RestOfRun(ub) == RunFrom(St, <<>>, ub)

\* the iteration of the loop, the read delivering all that remains of the
\* input, leaves the state as it is: the loop repeats it for ever
IterationRepeats ==
    \A ub \in Resolutions : Iteration(St, Len(input) - offset, ub) = St

\* C1: the main loop terminates: the run never reaches a state in which the
\* loop goes on and its iteration changes nothing; in particular the scanner
\* advances past a text byte at depth 0.
C1_Terminates == ~(pc = "run" /\ IterationRepeats)

\* C2: once end of input is seen while the scanner is inside an XML comment or
\* a CDATA section, the run ends with exit 1 and the matching diagnostic.
C2_UnterminatedReported ==
    (EndOfInputSeen /\ (inXMLComment \/ inCDATA))
        => \A ub \in Resolutions :
              /\ RestOfRun(ub).pc = "exit1"
              /\ RestOfRun(ub).diag \in {"Unterminated XML comment",
                                         "Unterminated CDATA"}

\* what a finished run shows: the exit code and the counters of the report
Outcome(s) ==
    <<s.pc, s.textsize, s.loc, s.exprCount, s.functionCount, s.classCount,
      s.unitCount, s.declCount, s.commentCount, s.isArchive>>

\* the run in which standard input delivers the whole document in one read
WholeRead == RunFrom(InitSt, <<>>, "last")

\* C3: a run that ends without a read failure ends with the exit code and the
\* counters of the run that gets the same document in a single read.
C3_BoundaryIndependent ==
    (Exited /\ ~ReadFailed) => Outcome(St) = Outcome(WholeRead)

\* C4: at every iteration boundary of the main loop the window is inside the
\* buffer: 0 <= cursor <= cursorEnd <= capacity.
C4_WindowInBuffer ==
    pc = "run" => (0 <= cursor /\ cursor <= cursorEnd
                   /\ cursorEnd <= BUFFER_SIZE)

\* C5 (as stated): depth is never negative, whatever the input.
C5_DepthNonNegative == depth >= 0

\* C5 (amended): depth leaves the non-negative numbers only when the end-tag
\* handler processes an end tag at depth 0; no other step makes it negative.
C5_NegativeOnlyByStrayEndTag ==
    [][(depth >= 0 /\ depth' < 0) => (depth = 0 /\ branch' = "endtag")]_vars

\* an end tag has been processed at depth 0 and has made depth negative
C5_StrayEndTagProcessed == pc = "run" /\ branch = "endtag" /\ depth = -1

\* documents that are well formed: one root element, balanced tags
WellFormedDocs ==
    LET A == Frag(1)
        Z == Frag(2)
        T == Frag(3)
        S == Frag(4)
    IN  { A \o Z, A \o T \o Z, A \o S \o Z, S \o A \o Z, A \o Z \o S,
          DeclaredUnitDoc,
          UnitOpen \o CDataOpen \o <<"d", "\n">> \o CDataClose \o UnitClose }

\* C6: a well-formed document, read without a read failure, ends the scan
\* with exit 0 and depth = 0.
C6_WellFormedEndsAtDepthZero ==
    (input \in WellFormedDocs /\ pc # "run" /\ ~ReadFailed)
        => (pc = "exit0" /\ depth = 0)

\* C7: a refill of the main loop that does not fail leaves in the window the
\* bytes that were unconsumed before it, followed by the bytes just read; this
\* includes the refill that sees end of input.
C7_RefillKeepsUnconsumed ==
    [][(branch' = "refill" /\ pc' \in {"run", "exit0"})
          => Window(St)' = Window(St) \o SubSeq(input, offset + 1, offset')]_vars

\* documents that end inside a start tag: complete content, then '<', a name
\* and possibly an attribute, and no closing '>'
TruncatedStartTagDocs ==
    LET heads == { <<>>, Frag(4), Frag(1), Frag(1) \o Frag(3) }
        tails == { Frag(7), Frag(7) \o Frag(8), <<"<", "u", "n", "i", "t">> }
    IN  { h \o tl : h \in heads, tl \in tails }

\* C8: a document that ends inside a start tag never ends the run with
\* exit 0: a run without a read failure ends with exit 1.
C8_TruncatedStartTagExitsOne ==
    (input \in TruncatedStartTagDocs /\ pc # "run" /\ ~ReadFailed)
        => pc = "exit1"

\* C9: no handler reads a buffer position at or beyond cursorEnd.
C9_ReadsInsideWindow == ~oob

Counters(s) ==
    [textsize |-> s.textsize, loc |-> s.loc, expr |-> s.exprCount,
     decl |-> s.declCount, comment |-> s.commentCount,
     function |-> s.functionCount, unit |-> s.unitCount,
     class |-> s.classCount]

\* the local names that have a counter
CountedNames ==
    [expr |-> <<"e", "x", "p", "r">>,
     decl |-> <<"d", "e", "c", "l">>,
     comment |-> <<"c", "o", "m", "m", "e", "n", "t">>,
     function |-> <<"f", "u", "n", "c", "t", "i", "o", "n">>,
     unit |-> <<"u", "n", "i", "t">>,
     class |-> <<"c", "l", "a", "s", "s">>]

\* the local name of the tag whose '<' is at position p of the buffer: the
\* name bytes and colons that follow the '<', without the prefix and its colon
LocalNameAt(s, p) ==
    LET stop  == Find(s, p + 1, Len(s.buffer),
                      LAMBDA b : ~(tagNameMask(b) \/ b = ":"))
        q     == Slice(s, p + 1, stop)
        colon == {i \in 1..Len(q) : q[i] = ":"}
    IN  IF colon = {} THEN q ELSE SubSeq(q, SetMin(colon) + 1, Len(q))

\* the counters c after one start tag of local name n
Counted(c, n) ==
    [f \in DOMAIN c |->
        IF f \in DOMAIN CountedNames /\ CountedNames[f] = n
        THEN c[f] + 1 ELSE c[f]]

\* C11: a start tag adds 1 to the counter of its local name, if that has one,
\* and changes no other counter; end tags, attributes and namespace
\* declarations change no counter.
C11_CountersByLocalName ==
    [][/\ (branch' = "starttag" /\ pc' = "run")
            => Counters(St)' =
                 Counted(Counters(St),
                         LocalNameAt(St', IF readSite' = "handler"
                                          THEN 0 ELSE cursor))
       /\ (branch' \in {"endtag", "attribute", "namespace"})
            => Counters(St)' = Counters(St)]_vars

\* the prefixed, self-closing s:expr has been counted as an expr
C11_PrefixedExprCounted ==
    /\ input = PrefixedExprDoc
    /\ pc = "run" /\ branch = "starttag"
    /\ exprCount = 1 /\ unitCount = 1 /\ depth = 1

\* the row Files of the report
Files == stdout[4]

\* the documents whose outermost element is a unit with a unit child, among
\* the well-formed documents the scan is checked on
UnitDocs == {DeclaredUnitDoc, PrefixedExprDoc, ArchiveDoc, ForeignRootDoc}
ArchiveDocs == {ArchiveDoc}

\* C12: a scan that ends with exit 0 has isArchive true exactly when the
\* outermost element is a unit with a unit child, and reports
\* Files = unitCount - 1 in that case and Files = unitCount otherwise.
C12_ArchiveCorrection ==
    (pc = "exit0" /\ input \in UnitDocs)
        => /\ isArchive <=> input \in ArchiveDocs
           /\ Files = IF input \in ArchiveDocs
                      THEN unitCount - 1 ELSE unitCount

\* the documents with white space added inside a tag header, and the document
\* each of them is without it
PaddedDocs == {PaddedStartTagDoc, PaddedEndTagDoc}
Unpadded(d) == NestedDoc

\* the run on document d that gets it in a single read
WholeReadOf(d) == RunFrom(InitOn(d), <<>>, "last")

\* C13: white space inside a tag header does not change loc: a scan of a
\* padded document that ends with exit 0 ends with the loc of the scan of
\* the document without the padding.
C13_LocIgnoresMarkup ==
    (input \in PaddedDocs /\ pc = "exit0")
        => /\ WholeReadOf(Unpadded(input)).pc = "exit0"
           /\ loc = WholeReadOf(Unpadded(input)).loc

\* C14: totalBytes is the sum of the non-negative results of the reads done so
\* far (offset, the number of bytes the reads have delivered), whichever of
\* the five refill sites did them.
C14_TotalBytesIsSumOfReads == totalBytes = offset

\* the start-tag handler has refilled the window and read some bytes
C14_StartTagRefilled ==
    /\ pc = "run" /\ branch = "starttag" /\ readSite = "handler"
    /\ totalBytes > 5

\* C15: a run that ends with exit 1 has written nothing of the report: the
\* report is on standard output only when main() has returned 0.
C15_NoReportOnError ==
    /\ pc = "exit1" => stdout = <<>>
    /\ stdout # <<>> => pc = "exit0"

\* a run has ended with exit 1 after bytes were read and elements counted
C15_ErrorAfterCounting ==
    pc = "exit1" /\ totalBytes > 0 /\ unitCount > 0

\* the url in the heading of the report
ReportedUrl == stdout[1]

\* C16: the url reported is the value of the first attribute named url; a
\* later attribute named url does not change it.
C16_FirstUrlReported ==
    (input = TwoUrlsDoc /\ pc = "exit0") => ReportedUrl = <<"1">>

\* the nine values of the table of the report, in the order of its rows:
\* srcML bytes, Characters, Files, LOC, Classes, Functions, Declarations,
\* Expressions, Comments
ReportedValues == Tail(stdout)

\* C17 (as stated): the scan of the declaration, a newline,
\* <unit><expr/></unit> and a newline ends with exit 0 and reports
\* srcML bytes = 37, Characters = 0, Files = 1, LOC = 0, Classes = 0,
\* Functions = 0, Declarations = 0, Expressions = 1, Comments = 0.
C17_ScenarioReports37 ==
    input = DeclaredUnitDoc
        => /\ WholeRead.pc = "exit0"
           /\ pc = "exit0" => ReportedValues = <<37, 0, 1, 0, 0, 0, 0, 1, 0>>

\* C17 (amended): the scan of that document, delivered in one read, ends with
\* exit 0, and every scan of it that ends with exit 0 reports
\* srcML bytes = 43, the length of the document, and the other values as
\* stated.
C17_ScenarioReports43 ==
    input = DeclaredUnitDoc
        => /\ WholeRead.pc = "exit0"
           /\ pc = "exit0" => ReportedValues = <<43, 0, 1, 0, 0, 0, 0, 1, 0>>

\* the scan of the document has ended with exit 0
C17_ScenarioDone == input = DeclaredUnitDoc /\ pc = "exit0" /\ exprCount = 1

\* the run of the current input that gets it in a single read has scanned
\* the document without a parser error
ScannedWhole == WholeRead.pc = "exit0"

\* C18 (as stated): the CDATA section <![CDATA[a<b&c]]> inside a comment
\* element adds 6 to textsize, leaves loc unchanged and causes no parser
\* error.
C18_CDataAddsSix ==
    input = CommentCDataDoc
        => /\ ScannedWhole
           /\ pc = "exit0" => (textsize = 6 /\ loc = 0)

\* C18 (amended): the section adds 5 to textsize, the length of a<b&c, and
\* leaves loc unchanged: the scan of the document delivered in one read ends
\* with exit 0, and every scan of it that ends with exit 0 ends with
\* textsize = 5 and loc = 0.
C18_CDataAddsFive ==
    input = CommentCDataDoc
        => /\ ScannedWhole
           /\ pc = "exit0" => (textsize = 5 /\ loc = 0)

\* the scan of the document has ended with exit 0, the comment counted
C18_CDataScanned ==
    input = CommentCDataDoc /\ pc = "exit0" /\ commentCount = 1

\* the attribute p:x='v' of PrefixedAttributeDoc
PrefixedAttribute == <<"p", ":", "x", "=", "'", "v", "'">>

\* the attribute handler is about to run with the whole prefixed attribute,
\* and the byte after it, in the window
AtPrefixedAttribute ==
    /\ pc = "run"
    /\ Classify(St) = "attribute"
    /\ cursorEnd - cursor > Len(PrefixedAttribute)
    /\ Slice(St, cursor, cursor + Len(PrefixedAttribute)) = PrefixedAttribute

\* C19: the attribute handler accepts a prefixed attribute
\* prefix:localName="value" inside a tag header: run on such an attribute it
\* consumes the name and the value and reports no error.
C19_PrefixedAttributeAccepted ==
    [][(AtPrefixedAttribute /\ branch' = "attribute")
          => /\ pc' = "run"
             /\ diag' = ""
             /\ cursor' >= cursor + Len(PrefixedAttribute)]_vars

\* C20: the end-tag handler decrements depth only when the tag name is
\* immediately followed by '>': the byte it consumes after the name is a '>'
\* whenever it has decremented depth.
C20_EndTagClosedByGt ==
    [][(branch' = "endtag" /\ depth' = depth - 1)
          => Byte(St', cursor' - 1) = ">"]_vars

\* how many bytes of the input the scan has passed: the bytes read less the
\* bytes still in the window
Consumed == offset - (cursorEnd - cursor)

\* the number of bytes of d up to the end of the first pat in it
EndOf(d, pat) ==
    SetMin({i \in Len(pat)..Len(d) : SubSeq(d, i - Len(pat) + 1, i) = pat})

CommentEnd == <<"-", "-", ">">>

\* the comment <!--c--> followed by a start tag, and preceded by one
CommentThenTagDoc == Frag(5) \o Frag(6) \o Frag(1)
TagThenCommentDoc == Frag(1) \o Frag(5) \o Frag(6)
ClosedCommentDocs == {CommentThenTagDoc, TagThenCommentDoc}

\* C21: a comment is closed at its --> also when the terminator straddles
\* two successive windows: once the scan has passed the terminator,
\* inXMLComment is clear.
C21_StraddledCommentClosed ==
    (input \in ClosedCommentDocs /\ pc = "run"
        /\ Consumed >= EndOf(input, CommentEnd))
        => ~inXMLComment

\* a CDATA section with a newline in it, inside a unit
StreamedCDataDoc ==
    UnitOpen \o CDataOpen \o <<"d", "\n">> \o CDataClose \o UnitClose

\* C22: for every chunking of the reads a CDATA section adds to textsize the
\* number of bytes between <![CDATA[ and ]]> and to loc the number of
\* newlines among them, no byte of the terminator included: once the scan
\* has passed the terminator of <unit><![CDATA[d\n]]></unit>, textsize is 2
\* and loc is 1.
C22_CDataCountedExactly ==
    (input = StreamedCDataDoc /\ pc = "run"
        /\ Consumed >= EndOf(input, CDataClose))
        => (textsize = 2 /\ loc = 1)

\* C23 (as stated): a self-closing <unit/> start tag seen at depth 1 does not
\* set isArchive: the scan of <unit><unit/></unit>, whose only nested unit is
\* self-closing, never sets the flag.
C23_SelfClosingUnitNoArchive == input = ArchiveDoc => ~isArchive


\* C23 (amended): isArchive is set only by the start-tag handler on a start
\* tag of local name unit seen at depth 1, and every such start tag sets it,
\* the self-closing <unit/> included.
C23_ArchiveSetByUnitAtDepthOne ==
    [][/\ isArchive' # isArchive
            => (isArchive' /\ branch' = "starttag" /\ depth = 1)
       /\ (branch' = "starttag" /\ pc' = "run")
            => LET p == IF readSite' = "handler" THEN 0 ELSE cursor
               IN  /\ (depth = 1 /\ LocalNameAt(St', p) = CountedNames.unit)
                        => isArchive'
                   /\ isArchive' # isArchive
                        => LocalNameAt(St', p) = CountedNames.unit]_vars

\* the self-closing unit of <unit><unit/></unit> has been scanned at depth 1
\* and has set the flag
C23_SelfClosingUnitArchived ==
    /\ input = ArchiveDoc
    /\ pc = "run" /\ branch = "starttag"
    /\ depth = 1 /\ unitCount = 2 /\ isArchive

\* the handlers that may close a tag header
HeaderHandlers == {"starttag", "attribute", "namespace"}

\* the bytes the handler has just passed are the "/>" of a self-closing tag
PassedSlashGt ==
    Byte(St, cursor - 2) = "/" /\ Byte(St, cursor - 1) = ">"

\* the byte the handler has just passed is a '>' that no '/' precedes
PassedGt ==
    Byte(St, cursor - 2) # "/" /\ Byte(St, cursor - 1) = ">"

\* the bytes at the cursor close a tag header
AtHeaderEnd ==
    \/ Byte(St, cursor) = ">"
    \/ Byte(St, cursor) = "/" /\ Byte(St, cursor + 1) = ">"

AcceptedDeclSeqs == {<<1>>, <<1, 2>>, <<1, 3>>, <<1, 2, 3>>}

\* C25: the XML declaration handler accepts exactly the attribute sequences
\* version; version encoding; version standalone; version encoding
\* standalone, and ends with exit 1 on every other sequence.
C25_DeclAcceptsExactly ==
    [][branch' = "xmldecl"
          => \A q \in DeclSeqs :
                input = DeclDoc(q)
                   => IF q \in AcceptedDeclSeqs THEN pc' = "run"
                      ELSE pc' = "exit1"]_vars

=============================================================================
